---- MODULE Spec2Model ----
(***************************************************************************)
(* A model of cc_notifier.py: the hook-event notifier that reads one event *)
(* from standard input, extracts the last assistant message from the       *)
(* session log, formats a chat card and relays it to a chat webhook and a  *)
(* mobile push service.                                                    *)
(*                                                                         *)
(* Text is modelled as a sequence of one-character strings, so that        *)
(* lower(), the substring test, slicing and strip() are computed the way   *)
(* Python computes them.  A fixed literal of the program that is never     *)
(* inspected character by character is one token of such a sequence.       *)
(***************************************************************************)
EXTENDS Integers, Sequences, FiniteSets, TLC

VARIABLES
    stdin,        \* what standard input holds for this invocation
    file,         \* the session log on disk: [state, lines]
    CONFIG,       \* the resolved configuration (module globals, lines 61-64)
    pc,           \* position of main(), or of the reader/formatter under test
    event_type,   \* main's local event_type after kind resolution
    message,      \* main's local message: the card format_stop_message built
    cardRead,     \* the extraction format_stop_message made (line 158)
    pushRead,     \* the extraction main made for the push summary (line 392)
    pushCalls,    \* calls of send_ios_push_notification: <<[title, message]>>
    pushHttp,     \* HTTP requests sent to the push service
    feishuCalls,  \* calls of send_to_feishu: <<card>>
    feishuHttp,   \* HTTP requests sent to the chat webhook
    stdout,       \* the JSON objects printed on standard output
    exitCode,     \* process exit code, -1 while running
    appended,     \* number of records another process appended during the run
    environ       \* the configuration sources: environment variables and config files

vars == <<stdin, file, CONFIG, pc, event_type, message, cardRead, pushRead,
          pushCalls, pushHttp, feishuCalls, feishuHttp, stdout, exitCode, appended,
          environ>>

----------------------------------------------------------------------------
(* Bounds of the model *)

\* longest session log written before the reader is applied (SpecExtract)
MaxLines == 2
\* longest session log present when main starts (Spec)
MaxMainLines == 1
\* records another process may append while main is running
MaxAppends == 1
\* how far around the truncation limits the long messages are drawn
MaxPad == 1

(* Program constants *)

\* last_message[:1000], len(last_message) > 1000
TruncLimit == 1000
\* last_message[:100]
PushLimit == 100
\* session_id[:8]
SessionPrefix == 8

----------------------------------------------------------------------------
(* Text *)

\* An optional JSON field: <<>> when the key is absent, <<v>> when present.
Absent == <<>>
Some(v) == <<v>>
Present(o) == Len(o) = 1
Get(o, default) == IF Present(o) THEN o[1] ELSE default

LowerMap ==
    [A |-> "a", B |-> "b", C |-> "c", D |-> "d", E |-> "e", F |-> "f", G |-> "g",
     H |-> "h", I |-> "i", J |-> "j", K |-> "k", L |-> "l", M |-> "m", N |-> "n",
     O |-> "o", P |-> "p", Q |-> "q", R |-> "r", S |-> "s", T |-> "t", U |-> "u",
     V |-> "v", W |-> "w", X |-> "x", Y |-> "y", Z |-> "z"]

\* str.lower()
Lower(s) == [i \in 1..Len(s) |-> IF s[i] \in DOMAIN LowerMap THEN LowerMap[s[i]] ELSE s[i]]

\* the Python operator `sub in s`
Contains(sub, s) ==
    \E i \in 1..(Len(s) - Len(sub) + 1) : SubSeq(s, i, i + Len(sub) - 1) = sub

\* s[:n]
Prefix(s, n) == SubSeq(s, 1, IF Len(s) < n THEN Len(s) ELSE n)

Whitespace == {" ", "\n", "\t", "\r"}

\* str.lstrip(), str.rstrip() and str.strip()
RECURSIVE LStrip(_)
LStrip(s) == IF s # <<>> /\ Head(s) \in Whitespace THEN LStrip(Tail(s)) ELSE s
RECURSIVE RStrip(_)
RStrip(s) ==
    IF s # <<>> /\ s[Len(s)] \in Whitespace THEN RStrip(SubSeq(s, 1, Len(s) - 1)) ELSE s
Strip(s) == LStrip(RStrip(s))

\* s.rstrip('/')
RECURSIVE RStripSlash(_)
RStripSlash(s) ==
    IF s # <<>> /\ s[Len(s)] = "/" THEN RStripSlash(SubSeq(s, 1, Len(s) - 1)) ELSE s

\* os.path.basename(p): what follows the last '/'
Basename(p) ==
    LET slashes == {i \in 1..Len(p) : p[i] = "/"}
    IN  IF slashes = {} THEN p
        ELSE SubSeq(p, (CHOOSE i \in slashes : \A j \in slashes : j <= i) + 1, Len(p))

----------------------------------------------------------------------------
(* The session log: one JSON value per line *)

\* Texts and directories the records of the modelled logs carry.
TextFirst == <<"f", "i", "r", "s", "t">>
TextBoom == <<"A", "P", "I", " ", "E", "r", "r", "o", "r", ":", " ", "b", "o", "o", "m">>
TextTool == <<"t", "o", "o", "l">>
DirA == <<"/", "p", "/", "a">>
DirB == <<"/", "p", "/", "b">>
DirC == <<"/", "p", "/", "c">>
DirD == <<"/", "p", "/", "d">>

\* An item of message.content.  kind "other" is any JSON value that is not an
\* object; type and text are the optional keys of an object item.
Item(kind, type, text) == [kind |-> kind, type |-> type, text |-> text]
TextItem(t) == Item("dict", Some("text"), Some(t))
OtherItem == Item("other", Absent, Absent)

\* message.content: absent, a value that is not a list, or a list of items.
Content(kind, items) == [kind |-> kind, items |-> items]
NoContent == Content("absent", <<>>)
OtherContent == Content("other", <<>>)
ListContent(items) == Content("list", items)

\* The message key of a record: absent, a value that is not an object, or an
\* object with optional keys cwd and content.
Msg(kind, cwd, content) == [kind |-> kind, cwd |-> cwd, content |-> content]
NoMsg == Msg("absent", Absent, NoContent)
OtherMsg == Msg("other", Absent, NoContent)
DictMsg(cwd, content) == Msg("dict", cwd, content)

\* A line of the log.  kind is
\*   "blank"      empty after line.strip()
\*   "malformed"  json.loads raises JSONDecodeError
\*   "scalar"     valid JSON null, number or boolean
\*   "container"  valid JSON string or array
\*   "object"     a JSON object, with the optional keys the reader looks at
Line(kind, cwd, workspace, workingDirectory, msg) ==
    [kind |-> kind, cwd |-> cwd, workspace |-> workspace,
     workingDirectory |-> workingDirectory, message |-> msg]
Obj(cwd, workspace, workingDirectory, msg) ==
    Line("object", cwd, workspace, workingDirectory, msg)
NonObj(kind) == Line(kind, Absent, Absent, Absent, NoMsg)
TextLine(items) == Obj(Absent, Absent, Absent, DictMsg(Absent, ListContent(items)))

\* lines 122-128: the loop over message['content'], last qualifying item wins
RECURSIVE ScanItems(_, _)
ScanItems(items, last_message_text) ==
    IF items = <<>> THEN last_message_text
    ELSE LET content_item == Head(items)
             text == Get(content_item.text, <<>>)
         IN  IF /\ content_item.kind = "dict"
                /\ content_item.type = Some("text")
                /\ text # <<>>
             THEN ScanItems(Tail(items), text)
             ELSE ScanItems(Tail(items), last_message_text)

\* lines 111-128: the message text after one parsed record
LineText(data, last_message_text) ==
    IF data.message.kind # "dict" THEN last_message_text
    ELSE IF data.message.content.kind # "list" THEN last_message_text
    ELSE ScanItems(data.message.content.items, last_message_text)

\* lines 101-109: the cwd accumulator after one parsed record
LineCwd(data, cwd) ==
    IF Present(data.cwd) THEN Get(data.cwd, <<>>)
    ELSE IF Present(data.workspace) THEN Get(data.workspace, <<>>)
    ELSE IF Present(data.workingDirectory) THEN Get(data.workingDirectory, <<>>)
    ELSE IF data.message.kind = "dict" /\ Present(data.message.cwd)
         THEN Get(data.message.cwd, <<>>)
    ELSE cwd

\* lines 97-133: does the body of the inner try raise something other than
\* JSONDecodeError?  A scalar raises TypeError at `'cwd' in data`; a string or
\* an array raises AttributeError at data.get.
LineRaises(line) == line.kind \in {"scalar", "container"}

\* lines 83-136: the loop over the lines of the file
RECURSIVE ScanLines(_, _, _)
ScanLines(lines, last_message_text, cwd) ==
    IF lines = <<>>
    THEN [raised |-> FALSE, text |-> last_message_text, cwd |-> cwd]
    ELSE LET line == Head(lines)
         IN  IF line.kind \in {"blank", "malformed"}
             THEN ScanLines(Tail(lines), last_message_text, cwd)
             ELSE IF LineRaises(line)
             THEN [raised |-> TRUE, text |-> last_message_text, cwd |-> cwd]
             ELSE ScanLines(Tail(lines), LineText(line, last_message_text),
                            LineCwd(line, cwd))

----------------------------------------------------------------------------
(* The file system *)

Home == <<"/", "h">>
\* the session log's path, absolute and with the home shorthand
LogPath == <<"/", "h", "/", "l", "o", "g">>
LogPathTilde == <<"~", "/", "l", "o", "g">>
\* a path at which no file exists
NoSuchPath == <<"/", "x">>

\* A JSON scalar of the event: a string, or a value that is not one.  NotStr
\* is the number 5, which is truthy; its s is what str() makes of it.
Str(s) == [t |-> "str", s |-> s]
NotStr == [t |-> "other", s |-> <<"5">>]

\* os.path.expanduser
expanduser(p) ==
    IF Len(p) >= 1 /\ p[1] = "~" /\ (Len(p) = 1 \/ p[2] = "/")
    THEN Home \o Tail(p)
    ELSE p

Empty == [text |-> <<>>, cwd |-> <<>>]

\* mutant of extract_last_message_from_jsonl: a failure while reading returns
\* what the accumulators hold instead of ("", "")
extract_last_message_from_jsonl_PartialOnError(transcript_path, f) ==
    IF transcript_path.t # "str" THEN Empty
    ELSE IF ~(expanduser(transcript_path.s) = LogPath /\ f.state # "missing")
         THEN Empty
    ELSE LET r == ScanLines(f.lines, <<>>, <<>>)
         IN  [text |-> r.text, cwd |-> r.cwd]

\* extract_last_message_from_jsonl: (last_message_text, cwd)
extract_last_message_from_jsonl(transcript_path, f) ==
    IF transcript_path.t # "str" THEN Empty           \* expanduser raises TypeError
    ELSE IF ~(expanduser(transcript_path.s) = LogPath /\ f.state # "missing")
         THEN Empty                                   \* os.path.exists is false
    ELSE IF f.state = "unreadable" THEN Empty         \* open or read raises
    ELSE LET r == ScanLines(f.lines, <<>>, <<>>)
         IN  IF r.raised THEN Empty ELSE [text |-> r.text, cwd |-> r.cwd]

----------------------------------------------------------------------------
(* The event on standard input *)

\* stdin is "unparsable" (json.load raises), "nonobject" (a JSON value that is
\* not an object) or "object", with the optional keys main looks at.
Event(kind, et, sha, msg, notif, sid, tp) ==
    [kind |-> kind, event_type |-> et, stop_hook_active |-> sha,
     message |-> msg, notification |-> notif,
     session_id |-> sid, transcript_path |-> tp]
StopEvent(sha, sid, tp) == Event("object", Some("Stop"), sha, FALSE, FALSE, sid, tp)

SessionId == <<"s", "e", "s", "s", "-", "1", "2", "3", "4", "5">>

\* values of the variables a specification does not use
NoCard == [title |-> "", template |-> "", content |-> <<>>]
NoConfig == [feishu_webhook_url |-> <<>>, ios_push_url |-> <<>>, ios_push_enabled |-> FALSE]

----------------------------------------------------------------------------
(* format_stop_message *)

\* error_keywords (lines 161-163)
error_keywords == { <<"A", "P", "I", " ", "E", "r", "r", "o", "r", ":">> }

\* lines 166-172: is_error.  The message is lowercased, the keyword is not.
IsError(last_message) ==
    /\ last_message # <<>>
    /\ \E kw \in error_keywords : Contains(kw, Lower(last_message))

\* the literals of the card; each token stands for the text in the comment
WarningLine == <<"**[!] warning:** Stop hook still active", "\n", "\n">>   \* line 179
Ellipsis == <<".", ".", ".">>
ContinuationMarker == Ellipsis \o <<"\n", "\n", "*see the terminal for the full content*">> \* line 185
SessionWord == <<"S", "e", "s", "s", "i", "o", "n", " ">>                   \* "Session " (line 190)
EndedWord == <<" ", "ended", "\n", "\n">>                                  \* " 已结束\n\n"
DebugPath == <<"**Debug - JSONL path:**", "\n", "[tick]">>                 \* line 193
DebugNoPath == <<"**[!] Debug:** no transcript_path">>                     \* line 195
UnknownSession == <<"U", "n", "k", "n", "o", "w", "n", " ", "S", "e", "s", "s", "i", "o", "n">>  \* "Unknown Session"

\* truthiness of a JSON scalar of the event
Truthy(v) == v.t # "str" \/ v.s # <<>>

\* mutant of MessagePortion: the length test is >= instead of >
MessagePortion_OffByOne(last_message) ==
    IF Len(last_message) >= TruncLimit
    THEN Prefix(last_message, TruncLimit) \o ContinuationMarker
    ELSE last_message

\* lines 182-187: the message as it is put in the body
MessagePortion(last_message) ==
    IF Len(last_message) > TruncLimit
    THEN Prefix(last_message, TruncLimit) \o ContinuationMarker
    ELSE last_message

\* lines 188-195: the body when no message was extracted; session_id is a string
FallbackBody(session_id, transcript_path) ==
    SessionWord \o Prefix(session_id.s, SessionPrefix) \o Ellipsis \o EndedWord
        \o (IF Truthy(transcript_path)
            THEN DebugPath \o transcript_path.s \o <<"[tick]">>
            ELSE DebugNoPath)

\* lines 197-204: the project label put before the body
ProjectLabel(cwd) ==
    IF cwd = <<>> THEN <<>>
    ELSE LET project_name == Basename(RStripSlash(cwd))
         IN  IF project_name # <<>>
             THEN <<"<font size=2>project: ">> \o project_name \o <<"</font>", "\n">>
             ELSE <<"<font size=2>path: ">> \o cwd \o <<"</font>", "\n">>

\* mutant of WarningPart: the warning is added whatever the flag says
WarningPart_Always(stop_hook_active) == WarningLine

\* lines 177-179
WarningPart(stop_hook_active) == IF stop_hook_active THEN WarningLine ELSE <<>>

\* lines 206-212: title and theme.  "task failed" stands for the failure
\* title of line 208, "task completed" for the success title of line 211.
CardTitle(is_error) == IF is_error THEN "task failed" ELSE "task completed"
CardTemplate(is_error) == IF is_error THEN "red" ELSE "green"

\* format_stop_message(data), reading the log f.  raised: session_id[:8] on a
\* session id that is not a string raises TypeError (line 190).
format_stop_message(data, f) ==
    LET session_id == Get(data.session_id, Str(UnknownSession))
        stop_hook_active == Get(data.stop_hook_active, FALSE)
        transcript_path == Get(data.transcript_path, Str(<<>>))
        read == IF Truthy(transcript_path)
                THEN extract_last_message_from_jsonl(transcript_path, f)
                ELSE Empty
        last_message == read.text
        is_error == IsError(last_message)
        raises == last_message = <<>> /\ session_id.t # "str"
        body == IF last_message # <<>> THEN MessagePortion(last_message)
                ELSE IF raises THEN <<>>
                ELSE FallbackBody(session_id, transcript_path)
        content == ProjectLabel(read.cwd) \o WarningPart(stop_hook_active) \o body
    IN  [raised |-> raises,
         read |-> read,
         card |-> IF raises THEN NoCard
                  ELSE [title |-> CardTitle(is_error),
                        template |-> CardTemplate(is_error),
                        content |-> Strip(content)]]

----------------------------------------------------------------------------
(* load_config *)

\* A config file: "absent" (the path does not exist), "broken" (it exists and
\* json.load or config.update raises) or "dict", a JSON object with the
\* optional keys of the configuration.
ConfigFile(kind, w, u, e) ==
    [kind |-> kind, feishu_webhook_url |-> w, ios_push_url |-> u, ios_push_enabled |-> e]
NoFile == ConfigFile("absent", Absent, Absent, Absent)
BrokenFile == ConfigFile("broken", Absent, Absent, Absent)

\* The environment variables load_config reads, each unset or set to a text.
Environment(w, u, e) == [FEISHU_WEBHOOK_URL |-> w, IOS_PUSH_URL |-> u, IOS_PUSH_ENABLED |-> e]

\* The sources of the configuration: the environment, the file in the user's
\* home directory and the file next to the script.
Sources(env, user, project) == [env |-> env, user |-> user, project |-> project]
NoSources == Sources(Environment(Absent, Absent, Absent), NoFile, NoFile)

\* line 44: config.update(file_config)
UpdateConfig(config, file_config) ==
    [feishu_webhook_url |-> Get(file_config.feishu_webhook_url, config.feishu_webhook_url),
     ios_push_url |-> Get(file_config.ios_push_url, config.ios_push_url),
     ios_push_enabled |-> Get(file_config.ios_push_enabled, config.ios_push_enabled)]

\* lines 39-47: the loop over config_paths; the first file that exists and
\* loads is applied and ends the loop
RECURSIVE LoadFiles(_, _)
LoadFiles(config_paths, config) ==
    IF config_paths = <<>> THEN config
    ELSE IF Head(config_paths).kind = "dict"
         THEN UpdateConfig(config, Head(config_paths))
         ELSE LoadFiles(Tail(config_paths), config)

TextTrue == <<"t", "r", "u", "e">>

\* lines 49-55: the environment variables, used when set and not empty
ApplyEnvironment(env, config) ==
    [feishu_webhook_url |->
         IF Get(env.FEISHU_WEBHOOK_URL, <<>>) # <<>>
         THEN env.FEISHU_WEBHOOK_URL[1] ELSE config.feishu_webhook_url,
     ios_push_url |->
         IF Get(env.IOS_PUSH_URL, <<>>) # <<>>
         THEN env.IOS_PUSH_URL[1] ELSE config.ios_push_url,
     ios_push_enabled |->
         IF Get(env.IOS_PUSH_ENABLED, <<>>) # <<>>
         THEN Lower(env.IOS_PUSH_ENABLED[1]) = TextTrue ELSE config.ios_push_enabled]

\* mutant of load_config: the loop has no break, so every file that loads is
\* applied and the script-directory file overrides the home-directory file
load_config_NoBreak(src) ==
    LET user == IF src.user.kind = "dict" THEN UpdateConfig(NoConfig, src.user) ELSE NoConfig
        both == IF src.project.kind = "dict" THEN UpdateConfig(user, src.project) ELSE user
    IN  ApplyEnvironment(src.env, both)

\* load_config()
load_config(src) ==
    ApplyEnvironment(src.env, LoadFiles(<<src.user, src.project>>, NoConfig))

----------------------------------------------------------------------------
(* Delivery *)

\* what the push service does with a request: "ok" is status 200 with code
\* 200 in the body, "status" a status other than 200, "code" status 200 with
\* another code, "badjson" status 200 with a body response.json() rejects,
\* "exception" requests.get raising (timeout, connection error)
PushOutcomes == {"ok", "status", "code", "badjson", "exception"}

\* what the chat webhook does with a request: "ok" a 2xx status, "status" a
\* status raise_for_status rejects, "exception" requests.post raising
FeishuOutcomes == {"ok", "status", "exception"}

PushTitle == "task completed"                       \* the title of lines 395-399
SessionEnded == <<"Session ended">>                 \* the literal of line 397
ClockSuffix == <<"\n", "\n", "HH:MM:SS">>           \* line 311

\* mutant of send_ios_push_notification: no try/except around the request
send_ios_push_notification_Unguarded(title, msg, outcome) ==
    IF ~CONFIG.ios_push_enabled \/ CONFIG.ios_push_url = <<>>
    THEN [http |-> <<>>, raised |-> FALSE]
    ELSE [http |-> <<[title |-> title, message |-> msg \o ClockSuffix, outcome |-> outcome]>>,
          raised |-> outcome \in {"badjson", "exception"}]

send_ios_push_notification_NoGate(title, msg, outcome) ==
    [http |-> <<[title |-> title, message |-> msg \o ClockSuffix, outcome |-> outcome]>>,
     raised |-> FALSE]

\* send_ios_push_notification(title, message) when the service answers with
\* outcome.  http: the requests sent; raised: does an exception escape.
send_ios_push_notification(title, msg, outcome) ==
    IF ~CONFIG.ios_push_enabled \/ CONFIG.ios_push_url = <<>>
    THEN [http |-> <<>>, raised |-> FALSE]
    ELSE [http |-> <<[title |-> title, message |-> msg \o ClockSuffix, outcome |-> outcome]>>,
          raised |-> FALSE]

\* send_to_feishu(message) when the webhook answers with outcome
send_to_feishu(card, outcome) ==
    IF CONFIG.feishu_webhook_url = <<>>
    THEN [http |-> <<>>, sent |-> FALSE]
    ELSE [http |-> <<[card |-> card, outcome |-> outcome]>>, sent |-> outcome = "ok"]

----------------------------------------------------------------------------
(* main *)

\* a JSON object printed on standard output; message and error are empty
\* when the key is absent
Result(success, msg, error) == [success |-> success, message |-> msg, error |-> error]

IgnoredMessage(kind) == <<"ignored event type: ", kind>>   \* line 411
FeishuFailed == "sending to the chat webhook failed"          \* line 422

\* mutant of ResolveKind: message/notification is tested before stop_hook_active
ResolveKind_MessageFirst(hook_data) ==
    LET explicit == Get(hook_data.event_type, "Unknown")
    IN  IF explicit = "Unknown"
        THEN IF hook_data.notification \/ hook_data.message THEN "Notification"
             ELSE IF Present(hook_data.stop_hook_active) THEN "Stop"
             ELSE explicit
        ELSE explicit

\* lines 375-383: the resolved kind of an event object
ResolveKind(hook_data) ==
    LET explicit == Get(hook_data.event_type, "Unknown")
    IN  IF explicit = "Unknown"
        THEN IF Present(hook_data.stop_hook_active) THEN "Stop"
             ELSE IF hook_data.notification \/ hook_data.message THEN "Notification"
             ELSE explicit
        ELSE explicit

\* mutant of CatchAll: the exception escapes main, nothing is printed
CatchAll_Reraise(error) ==
    /\ stdout' = stdout
    /\ exitCode' = 1
    /\ pc' = "done"

\* lines 426-432: the catch-all handler prints the failure and exits with 1
CatchAll(error) ==
    /\ stdout' = Append(stdout, Result(FALSE, <<>>, error))
    /\ exitCode' = 1
    /\ pc' = "done"

\* lines 372-383: read standard input and resolve the kind
ResolveGuard == pc = "start"
Resolve ==
    /\ ResolveGuard
    /\ IF stdin.kind = "unparsable"
       THEN CatchAll("JSONDecodeError") /\ UNCHANGED event_type
       ELSE IF stdin.kind = "nonobject"
       THEN CatchAll("AttributeError") /\ UNCHANGED event_type
       ELSE /\ event_type' = ResolveKind(stdin)
            /\ pc' = "resolved"
            /\ UNCHANGED <<stdout, exitCode>>
    /\ UNCHANGED <<environ, stdin, file, CONFIG, message, cardRead, pushRead, pushCalls,
                   pushHttp, feishuCalls, feishuHttp, appended>>

\* lines 407-413: any kind other than Stop is ignored
IgnoreGuard == pc = "resolved" /\ event_type # "Stop"
\* mutant of Ignore: the Notification branch of lines 402-405 is active
Ignore_NotificationEnabled ==
    /\ IgnoreGuard
    /\ IF event_type = "Notification"
       THEN /\ pushCalls' = Append(pushCalls, [title |-> "notification", message |-> <<"new notification">>])
            /\ pc' = "pushed"
            /\ UNCHANGED <<stdout, exitCode>>
       ELSE /\ stdout' = Append(stdout, Result(TRUE, IgnoredMessage(event_type), ""))
            /\ exitCode' = 0
            /\ pc' = "done"
            /\ UNCHANGED pushCalls
    /\ UNCHANGED <<environ, stdin, file, CONFIG, event_type, message, cardRead, pushRead,
                   pushHttp, feishuCalls, feishuHttp, appended>>

Ignore ==
    /\ IgnoreGuard
    /\ stdout' = Append(stdout, Result(TRUE, IgnoredMessage(event_type), ""))
    /\ exitCode' = 0
    /\ pc' = "done"
    /\ UNCHANGED <<environ, stdin, file, CONFIG, event_type, message, cardRead, pushRead,
                   pushCalls, pushHttp, feishuCalls, feishuHttp, appended>>

\* line 387: message = format_stop_message(hook_data)
FormatStopGuard == pc = "resolved" /\ event_type = "Stop"
FormatStop ==
    /\ FormatStopGuard
    /\ LET r == format_stop_message(stdin, file)
       IN  /\ cardRead' = r.read
           /\ message' = r.card
           /\ IF r.raised
              THEN CatchAll("TypeError")
              ELSE pc' = "formatted" /\ UNCHANGED <<stdout, exitCode>>
    /\ UNCHANGED <<environ, stdin, file, CONFIG, event_type, pushRead, pushCalls,
                   pushHttp, feishuCalls, feishuHttp, appended>>

\* lines 390-399: the push summary, from a second reading of the log
PushStopGuard == pc = "formatted"
PushStop(outcome) ==
    /\ PushStopGuard
    /\ LET transcript_path == Get(stdin.transcript_path, Str(<<>>))
           read == IF Truthy(transcript_path)
                   THEN extract_last_message_from_jsonl(transcript_path, file)
                   ELSE Empty
           summary == IF read.text # <<>> THEN Prefix(read.text, PushLimit) ELSE SessionEnded
           r == send_ios_push_notification(PushTitle, summary, outcome)
       IN  /\ pushRead' = read
           /\ pushCalls' = Append(pushCalls, [title |-> PushTitle, message |-> summary])
           /\ pushHttp' = pushHttp \o r.http
           /\ IF r.raised
              THEN CatchAll("push exception")
              ELSE pc' = "pushed" /\ UNCHANGED <<stdout, exitCode>>
    /\ UNCHANGED <<environ, stdin, file, CONFIG, event_type, message, cardRead,
                   feishuCalls, feishuHttp, appended>>

\* lines 415-424: deliver the card to the chat webhook and report
SendFeishuGuard == pc = "pushed"
SendFeishu(outcome) ==
    /\ SendFeishuGuard
    /\ LET r == send_to_feishu(message, outcome)
       IN  /\ feishuCalls' = Append(feishuCalls, message)
           /\ feishuHttp' = feishuHttp \o r.http
           /\ stdout' = Append(stdout, IF r.sent THEN Result(TRUE, <<>>, "")
                                       ELSE Result(FALSE, <<>>, FeishuFailed))
           /\ exitCode' = IF r.sent THEN 0 ELSE 1
           /\ pc' = "done"
    /\ UNCHANGED <<environ, stdin, file, CONFIG, event_type, message, cardRead, pushRead,
                   pushCalls, pushHttp, appended>>

\* the session's writer appends a record to the log while main is running
\* (after the second reading, at "pushed", main never looks at the log again)
AppendRecord(l) ==
    /\ pc \in {"start", "resolved", "formatted"}
    /\ file.state = "ok"
    /\ appended < MaxAppends
    /\ file' = [file EXCEPT !.lines = Append(@, l)]
    /\ appended' = appended + 1
    /\ UNCHANGED <<environ, stdin, CONFIG, pc, event_type, message, cardRead, pushRead, pushCalls,
                   pushHttp, feishuCalls, feishuHttp, stdout, exitCode>>

\* the records of the logs main is run on
MainLines ==
    { TextLine(<<TextItem(TextBoom)>>),
      TextLine(<<TextItem([i \in 1..(PushLimit + MaxPad) |-> "m"])>>),
      NonObj("scalar") }

RECURSIVE SeqsUpTo(_, _)
SeqsUpTo(S, n) ==
    IF n = 0 THEN { <<>> }
    ELSE LET shorter == SeqsUpTo(S, n - 1)
         IN  shorter \cup { Append(q, x) : q \in shorter, x \in S }

\* "missing": no file at LogPath; "unreadable": the file exists and opening or
\* reading it raises (permission denied, a directory, undecodable bytes)
MainFiles ==
    { [state |-> "missing", lines |-> <<>>] }
        \cup { [state |-> st, lines |-> ls] :
                 st \in {"ok", "unreadable"}, ls \in SeqsUpTo(MainLines, MaxMainLines) }

EventTypes == { Absent, Some("Stop"), Some("Notification"), Some("ToolUse"), Some("Unknown") }
Flags == { Absent, Some(FALSE), Some(TRUE) }

\* events that exercise kind resolution
DispatchEvents ==
    { Event("object", et, sha, m[1], m[2], Some(Str(SessionId)), Absent) :
        et \in EventTypes, sha \in Flags,
        m \in { <<FALSE, FALSE>>, <<TRUE, FALSE>>, <<FALSE, TRUE>> } }

\* events that exercise the Stop path
StopEvents ==
    { Event("object", et, sha, FALSE, FALSE, sid, tp) :
        et \in { Some("Stop") }, sha \in Flags,
        sid \in { Absent, Some(Str(SessionId)), Some(NotStr) },
        tp \in { Absent, Some(Str(LogPathTilde)), Some(Str(NoSuchPath)), Some(NotStr) } }

BadInputs ==
    { Event(k, Absent, Absent, FALSE, FALSE, Absent, Absent) : k \in {"unparsable", "nonobject"} }

MainInputs == DispatchEvents \cup StopEvents \cup BadInputs

Configs ==
    { [feishu_webhook_url |-> w, ios_push_url |-> u, ios_push_enabled |-> e] :
        w \in { <<>>, <<"https://hook">> }, u \in { <<>>, <<"key">> }, e \in BOOLEAN }

\* the configuration sources main is run with: environment variables only
MainSources ==
    { Sources(Environment(w, u, e), NoFile, NoFile) :
        w \in { Absent, Some(<<"https://hook">>) },
        u \in { Absent, Some(<<"key">>) },
        e \in { Absent, Some(TextTrue) } }

Init ==
    /\ stdin \in MainInputs
    /\ file \in MainFiles
    /\ environ \in MainSources
    /\ CONFIG \in Configs
    /\ CONFIG = load_config(environ)
    /\ pc = "start"
    /\ event_type = ""
    /\ message = NoCard
    /\ cardRead = Empty
    /\ pushRead = Empty
    /\ pushCalls = <<>>
    /\ pushHttp = <<>>
    /\ feishuCalls = <<>>
    /\ feishuHttp = <<>>
    /\ stdout = <<>>
    /\ exitCode = -1
    /\ appended = 0

Next ==
    \/ Resolve
    \/ Ignore
    \/ FormatStop
    \/ \E o \in PushOutcomes : PushStop(o)
    \/ \E o \in FeishuOutcomes : SendFeishu(o)
    \/ \E l \in MainLines : AppendRecord(l)

Spec == Init /\ [][Next]_vars

----------------------------------------------------------------------------
(* Claims about main *)

IsStopRun == stdin.kind = "object" /\ event_type = "Stop"

\* the chat webhook accepted the card
Delivered == feishuHttp # <<>> /\ feishuHttp[1].outcome = "ok"

\* C5: for a Stop event that reached the push step or whose session id is a
\* string (or absent), whatever the push channel did, the card is handed to
\* the chat webhook exactly once and the result and exit code follow the
\* webhook alone: success and 0 when it accepted the card, failure with an
\* error and 1 otherwise.
C5_OutcomeFollowsWebhook ==
    (pc = "done" /\ IsStopRun /\ (pushCalls # <<>> \/ stdin.session_id # Some(NotStr))) =>
        /\ feishuCalls = <<message>>
        /\ (CONFIG.feishu_webhook_url # <<>> => Len(feishuHttp) = 1)
        /\ Len(stdout) = 1
        /\ IF Delivered
           THEN stdout[1] = Result(TRUE, <<>>, "") /\ exitCode = 0
           ELSE stdout[1].success = FALSE /\ stdout[1].error # "" /\ exitCode = 1

\* the push service failed and the invocation still succeeded
C5_Witness ==
    /\ pc = "done" /\ IsStopRun
    /\ pushHttp # <<>> /\ pushHttp[1].outcome = "exception"
    /\ Delivered /\ exitCode = 0

\* main has a next step to take: the guard of one of its actions holds
CanStep == ResolveGuard \/ IgnoreGuard \/ FormatStopGuard \/ PushStopGuard \/ SendFeishuGuard

\* C6: nothing is printed and no exit code is set before main ends; main can
\* always take a step until it ends; it ends with exactly one result object
\* printed and exit code 0 exactly when that object reports success;
\* unparsable input ends with success = false and exit code 1.
C6_OneResultAlways ==
    /\ pc # "done" => (stdout = <<>> /\ exitCode = -1 /\ CanStep)
    /\ pc = "done" =>
        /\ Len(stdout) = 1
        /\ exitCode \in {0, 1}
        /\ (exitCode = 0 <=> stdout[1].success)
        /\ (stdin.kind = "unparsable" => (~stdout[1].success /\ exitCode = 1))

\* an event whose session id is not a string made the formatter raise, and
\* the catch-all reported it
C6_Witness ==
    /\ pc = "done"
    /\ stdin.kind = "object" /\ stdin.session_id = Some(NotStr)
    /\ stdout = <<Result(FALSE, <<>>, "TypeError")>>
    /\ exitCode = 1

NoDelivery == pushCalls = <<>> /\ pushHttp = <<>> /\ feishuCalls = <<>> /\ feishuHttp = <<>>

\* C7: an event whose resolved kind is not Stop is ignored: no delivery is
\* attempted on either channel, and main ends reporting success with a
\* message naming the kind, exit code 0.
C7_NonStopIgnored ==
    (stdin.kind = "object" /\ pc \in {"resolved", "done"} /\ event_type # "Stop") =>
        /\ NoDelivery
        /\ pc = "done" => (stdout = <<Result(TRUE, IgnoredMessage(event_type), "")>> /\ exitCode = 0)

\* an event with no kind field and a message field was resolved to
\* Notification and ignored
C7_Witness ==
    /\ pc = "done"
    /\ stdin.event_type = Absent /\ stdin.message
    /\ event_type = "Notification"
    /\ exitCode = 0 /\ NoDelivery

\* the kind inferred from the marker fields
InferredKind(e) ==
    IF Present(e.stop_hook_active) THEN "Stop"
    ELSE IF e.message \/ e.notification THEN "Notification"
    ELSE "Unknown"

\* C8 as stated: the explicit kind is used when present and recognized, and
\* the kind is inferred when the field is absent or holds an unrecognized
\* value.
C8_InferredWhenUnrecognized ==
    (stdin.kind = "object" /\ pc \in {"resolved", "formatted", "pushed", "done"}) =>
        LET claimed == IF stdin.event_type \in {Some("Stop"), Some("Notification")}
                       THEN stdin.event_type[1]
                       ELSE InferredKind(stdin)
        IN  (event_type = "Stop") = (claimed = "Stop")
            /\ (event_type = "Notification") = (claimed = "Notification")

\* C8 (amended): the explicit kind is used, recognized or not, whenever the
\* field is present with a value other than the literal "Unknown"; the kind
\* is inferred only when the field is absent or holds "Unknown":
\* stop_hook_active gives Stop, otherwise message or notification gives
\* Notification, otherwise the kind stays "Unknown".
C8_KindResolution ==
    (stdin.kind = "object" /\ pc \in {"resolved", "formatted", "pushed", "done"}) =>
        event_type = IF Present(stdin.event_type) /\ stdin.event_type # Some("Unknown")
                     THEN stdin.event_type[1]
                     ELSE InferredKind(stdin)

\* an unrecognized explicit kind was kept although the Stop marker is present
C8_Witness ==
    /\ pc = "done"
    /\ stdin.event_type = Some("ToolUse") /\ Present(stdin.stop_hook_active)
    /\ event_type = "ToolUse"
    /\ exitCode = 0

\* the log path of the event does not lead to a file that can be read
LogFails ==
    /\ Present(stdin.transcript_path)
    /\ \/ stdin.transcript_path[1].t # "str"
       \/ expanduser(stdin.transcript_path[1].s) # LogPath
       \/ file.state \in {"missing", "unreadable"}

\* C9: when the log cannot be read, the extraction is ("", ""); a Stop event
\* with a string (or no) session id is then formatted with the fallback body,
\* made of the first 8 characters of the session id and the literal log path,
\* and that card is handed to the chat webhook.
C9_FallbackOnUnreadableLog ==
    (IsStopRun /\ LogFails /\ pc \in {"formatted", "pushed", "done"}
       /\ stdin.session_id # Some(NotStr)) =>
        LET sid == IF Present(stdin.session_id) THEN stdin.session_id[1].s ELSE UnknownSession
        IN  /\ cardRead = Empty
            /\ message.content =
                 WarningPart(Get(stdin.stop_hook_active, FALSE))
                   \o SessionWord \o SubSeq(sid, 1, SessionPrefix) \o Ellipsis \o EndedWord
                   \o DebugPath \o stdin.transcript_path[1].s \o <<"[tick]">>
            /\ message.title = "task completed"
            /\ pc = "done" => feishuCalls = <<message>>

\* a log that holds a message but cannot be read gave the fallback card,
\* which reached the webhook
C9_Witness ==
    /\ pc = "done" /\ IsStopRun
    /\ file.state = "unreadable" /\ file.lines # <<>>
    /\ stdin.transcript_path = Some(Str(LogPathTilde))
    /\ cardRead = Empty
    /\ feishuCalls = <<message>> /\ Delivered

----------------------------------------------------------------------------
(* SpecExtract: extract_last_message_from_jsonl applied to bounded logs *)

\* records that exercise the working-directory lookup (lines 101-109)
CwdLines ==
    { Obj(c, w, wd, m) :
        c \in {Absent, Some(<<>>), Some(DirA)},
        w \in {Absent, Some(DirB)},
        wd \in {Absent, Some(DirC)},
        m \in {NoMsg, DictMsg(Some(DirD), NoContent)} }

\* records that exercise the message lookup (lines 111-128)
MessageLines ==
    { TextLine(<<TextItem(TextFirst)>>),
      TextLine(<<TextItem(TextFirst), TextItem(TextBoom)>>),
      TextLine(<<TextItem(TextBoom), TextItem(<<>>)>>),
      TextLine(<<TextItem(TextBoom), Item("dict", Some("tool_use"), Some(TextTool))>>),
      TextLine(<<OtherItem, Item("dict", Some("text"), Absent)>>),
      Obj(Absent, Absent, Absent, OtherMsg),
      Obj(Absent, Absent, Absent, DictMsg(Absent, OtherContent)),
      Obj(Some(DirA), Absent, Absent, DictMsg(Absent, ListContent(<<TextItem(TextFirst)>>))) }

NonRecordLines == { NonObj("blank"), NonObj("malformed"), NonObj("scalar"), NonObj("container") }

ExtractLines == CwdLines \cup MessageLines \cup NonRecordLines

ExtractPaths == { Str(LogPath), Str(LogPathTilde), Str(NoSuchPath), NotStr }

InitExtract ==
    /\ stdin \in { StopEvent(Absent, Some(Str(SessionId)), Some(p)) : p \in ExtractPaths }
    /\ file \in { [state |-> st, lines |-> <<>>] : st \in {"ok", "missing", "unreadable"} }
    /\ environ = NoSources
    /\ CONFIG = NoConfig
    /\ pc = "writing"
    /\ event_type = ""
    /\ message = NoCard
    /\ cardRead = Empty
    /\ pushRead = Empty
    /\ pushCalls = <<>>
    /\ pushHttp = <<>>
    /\ feishuCalls = <<>>
    /\ feishuHttp = <<>>
    /\ stdout = <<>>
    /\ exitCode = -1
    /\ appended = 0

\* the session's writer appends one line to the log
WriteLine(l) ==
    /\ pc = "writing"
    /\ file.state # "missing"
    /\ Len(file.lines) < MaxLines
    /\ file' = [file EXCEPT !.lines = Append(@, l)]
    /\ UNCHANGED <<environ, stdin, CONFIG, pc, event_type, message, cardRead, pushRead, pushCalls,
                   pushHttp, feishuCalls, feishuHttp, stdout, exitCode, appended>>

\* one call of extract_last_message_from_jsonl(transcript_path)
ReadLog ==
    /\ pc = "writing"
    /\ cardRead' = extract_last_message_from_jsonl(Get(stdin.transcript_path, Str(<<>>)), file)
    /\ pc' = "read"
    /\ UNCHANGED <<environ, stdin, file, CONFIG, event_type, message, pushRead, pushCalls,
                   pushHttp, feishuCalls, feishuHttp, stdout, exitCode, appended>>

NextExtract ==
    \/ \E l \in ExtractLines : WriteLine(l)
    \/ ReadLog

SpecExtract == InitExtract /\ [][NextExtract]_vars

\* the reader was applied to a log it could open and read
LogWasRead ==
    /\ pc = "read"
    /\ file.state = "ok"
    /\ stdin.transcript_path \in {Some(Str(LogPath)), Some(Str(LogPathTilde))}

\* the items of message.content of every record of the log, in file order
RECURSIVE AllItems(_)
AllItems(lines) ==
    IF lines = <<>> THEN <<>>
    ELSE LET l == Head(lines)
         IN  (IF l.kind = "object" /\ l.message.kind = "dict" /\ l.message.content.kind = "list"
              THEN l.message.content.items ELSE <<>>) \o AllItems(Tail(lines))

Qualifying(it) ==
    it.kind = "dict" /\ it.type = Some("text") /\ Present(it.text) /\ it.text[1] # <<>>

\* the text of the last qualifying item of the log, empty when there is none
LastQualifyingText(lines) ==
    LET items == AllItems(lines)
        q == {i \in 1..Len(items) : Qualifying(items[i])}
    IN  IF q = {} THEN <<>>
        ELSE items[CHOOSE i \in q : \A j \in q : j <= i].text[1]

\* C2: for every log that is read, lastMessageText is the text of the last
\* qualifying item in file order, and is empty only when no line holds one.
C2_LastQualifyingItemWins ==
    LogWasRead => cardRead.text = LastQualifyingText(file.lines)

\* a line that parses as a record: a JSON object
IsRecord(l) == l.kind = "object"

\* C3: lines that do not parse as a record are skipped: the result of reading
\* a log equals the result of reading it with those lines removed.
C3_NonRecordLinesSkipped ==
    LogWasRead =>
        cardRead = extract_last_message_from_jsonl(
                       Str(LogPath), [state |-> "ok", lines |-> SelectSeq(file.lines, IsRecord)])

\* what one record contributes as working directory: the value of the first
\* field present, in the order cwd, workspace, workingDirectory, message.cwd
Contribution(l) ==
    IF Present(l.cwd) THEN l.cwd[1]
    ELSE IF Present(l.workspace) THEN l.workspace[1]
    ELSE IF Present(l.workingDirectory) THEN l.workingDirectory[1]
    ELSE IF l.message.kind = "dict" /\ Present(l.message.cwd) THEN l.message.cwd[1]
    ELSE <<>>

\* the last non-empty contribution in file order
LastNonEmptyCwd(lines) ==
    LET q == {i \in 1..Len(lines) : IsRecord(lines[i]) /\ Contribution(lines[i]) # <<>>}
    IN  IF q = {} THEN <<>>
        ELSE Contribution(lines[CHOOSE i \in q : \A j \in q : j <= i])

\* C4: on a log of records, workingDirectory is the last non-empty value
\* contributed in file order; an empty contribution never erases an earlier
\* non-empty one.
C4_LastNonEmptyCwd ==
    (LogWasRead /\ \A i \in 1..Len(file.lines) : ~LineRaises(file.lines[i]))
        => cardRead.cwd = LastNonEmptyCwd(file.lines)

----------------------------------------------------------------------------
(* SpecFormat: format_stop_message applied to bounded events and messages *)

Digits == <<"0", "1", "2", "3", "4", "5", "6", "7", "8", "9">>
\* a text of n characters, no two neighbours alike
LongText(n) == [i \in 1..n |-> Digits[(i % 10) + 1]]

TextLowerErr == <<"a", "p", "i", " ", "e", "r", "r", "o", "r", ":", " ", "x">>
TextMixedErr == <<"a", "n", " ", "A", "p", "i", " ", "E", "R", "R", "O", "R", ":", " ", "y">>
TextPadded == <<" ", "h", "i", "\n">>
TextOk == <<"o", "k">>

ShortMessages == { TextFirst, TextBoom, TextLowerErr, TextMixedErr, TextPadded, TextOk }
LongMessages ==
    { LongText(n) : n \in (TruncLimit - MaxPad)..(TruncLimit + MaxPad) }
        \cup { <<" ">> \o LongText(TruncLimit + MaxPad), LongText(TruncLimit + MaxPad) \o <<"\n">> }
FormatMessages == ShortMessages \cup LongMessages

FormatLogs ==
    { <<>> } \cup
    { << Obj(c, Absent, Absent, DictMsg(Absent, ListContent(<<TextItem(m)>>))) >> :
        c \in {Absent, Some(DirA), Some(<<"/">>)}, m \in FormatMessages }

FormatEvents ==
    { StopEvent(sha, sid, tp) :
        sha \in {Absent, Some(FALSE), Some(TRUE)},
        sid \in {Absent, Some(Str(SessionId)), Some(Str(<<"s", "1">>)), Some(NotStr)},
        tp \in {Absent, Some(Str(LogPathTilde)), Some(Str(NoSuchPath))} }

InitFormat ==
    /\ stdin \in FormatEvents
    /\ file \in { [state |-> "ok", lines |-> ls] : ls \in FormatLogs }
    /\ environ = NoSources
    /\ CONFIG = NoConfig
    /\ pc = "input"
    /\ event_type = "Stop"
    /\ message = NoCard
    /\ cardRead = Empty
    /\ pushRead = Empty
    /\ pushCalls = <<>>
    /\ pushHttp = <<>>
    /\ feishuCalls = <<>>
    /\ feishuHttp = <<>>
    /\ stdout = <<>>
    /\ exitCode = -1
    /\ appended = 0

\* one call of format_stop_message(hook_data)
Format ==
    /\ pc = "input"
    /\ LET r == format_stop_message(stdin, file)
       IN  /\ message' = r.card
           /\ cardRead' = r.read
           /\ pc' = IF r.raised THEN "raised" ELSE "formatted"
    /\ UNCHANGED <<environ, stdin, file, CONFIG, event_type, pushRead, pushCalls,
                   pushHttp, feishuCalls, feishuHttp, stdout, exitCode, appended>>

NextFormat == Format

SpecFormat == InitFormat /\ [][NextFormat]_vars

\* the lowercased message contains the lowercased form of a configured keyword
MatchesKeyword(msg) == \E kw \in error_keywords : Contains(Lower(kw), Lower(msg))

\* C1: a Stop card is the red 'task failed' card if and only if the message is
\* non-empty and its lowercase form contains the lowercase form of an error
\* keyword; otherwise it is the green 'task completed' card.
C1_ClassificationLaw ==
    pc = "formatted" =>
        IF cardRead.text # <<>> /\ MatchesKeyword(cardRead.text)
        THEN message.title = "task failed" /\ message.template = "red"
        ELSE message.title = "task completed" /\ message.template = "green"

\* the message portion the truncation law describes
TruncationLaw(msg) ==
    IF Len(msg) > TruncLimit THEN SubSeq(msg, 1, TruncLimit) \o ContinuationMarker ELSE msg

EndsWith(s, t) == Len(t) <= Len(s) /\ SubSeq(s, Len(s) - Len(t) + 1, Len(s)) = t

\* C10 as stated: the card body ends with the message portion of the
\* truncation law, character for character.
C10_MessagePortionExact ==
    (pc = "formatted" /\ cardRead.text # <<>>)
        => EndsWith(message.content, TruncationLaw(cardRead.text))

\* C10 (amended): the card body is the whitespace-trimmed concatenation of the
\* project label, the warning line and the message portion, where the message
\* portion is the first 1000 characters followed by the continuation marker
\* for a message longer than 1000 characters and the whole message otherwise.
C10_TruncationLaw ==
    (pc = "formatted" /\ cardRead.text # <<>>)
        => message.content =
             Strip(ProjectLabel(cardRead.cwd)
                   \o WarningPart(Get(stdin.stop_hook_active, FALSE))
                   \o TruncationLaw(cardRead.text))

\* a message longer than the limit was formatted and cut
C10_Witness ==
    /\ pc = "formatted"
    /\ Len(cardRead.text) > TruncLimit
    /\ EndsWith(message.content, ContinuationMarker)
    /\ Len(message.content) = TruncLimit + Len(ContinuationMarker)

----------------------------------------------------------------------------
(* The warning banner and the classification *)

\* the card format_stop_message builds for the same event and log when the
\* stop_hook_active field is sha instead
CardWithFlag(sha) == format_stop_message([stdin EXCEPT !.stop_hook_active = sha], file).card

\* C11: the body holds the warning line, right after the project label, if
\* and only if stop_hook_active is true, whatever the message; the title and
\* theme are the same whatever stop_hook_active is; with no log path and
\* stop_hook_active true the body is the warning line followed by the
\* shortened-session-id fallback and the title is 'task completed'.
C11_WarningIndependentOfClassification ==
    pc = "formatted" =>
        LET flag == Get(stdin.stop_hook_active, FALSE)
            label == ProjectLabel(cardRead.cwd)
            body == message.content
            sid == IF Present(stdin.session_id) THEN stdin.session_id[1].s ELSE UnknownSession
        IN  /\ (\E i \in 1..Len(body) : body[i] = WarningLine[1]) <=> flag
            /\ flag => (Len(body) > Len(label) /\ body[Len(label) + 1] = WarningLine[1])
            /\ \A sha \in Flags :
                 /\ CardWithFlag(sha).title = message.title
                 /\ CardWithFlag(sha).template = message.template
            /\ (flag /\ ~Present(stdin.transcript_path)) =>
                 /\ body = WarningLine \o SessionWord \o Prefix(sid, SessionPrefix)
                             \o Ellipsis \o EndedWord \o DebugNoPath
                 /\ message.title = "task completed"

\* an event with no log path and stop_hook_active true was formatted: the
\* body begins with the warning line and the title is 'task completed'
C11_Witness ==
    /\ pc = "formatted"
    /\ stdin.stop_hook_active = Some(TRUE) /\ stdin.transcript_path = Absent
    /\ SubSeq(message.content, 1, Len(WarningLine)) = WarningLine
    /\ message.title = "task completed"

----------------------------------------------------------------------------
(* SpecConfig: load_config applied to bounded configuration sources *)

\* values that tell the sources apart
EnvHook == <<"e", "h">>
EnvKey == <<"e", "k">>
UserHook == <<"u", "h">>
UserKey == <<"u", "k">>
ProjectHook == <<"p", "h">>
ProjectKey == <<"p", "k">>

ConfigEnvironments ==
    { Environment(w, u, e) :
        w \in { Absent, Some(<<>>), Some(EnvHook) },
        u \in { Absent, Some(EnvKey) },
        e \in { Absent, Some(<<"T", "r", "u", "e">>), Some(<<"n", "o">>) } }

UserFiles ==
    { NoFile, BrokenFile } \cup
    { ConfigFile("dict", w, u, e) :
        w \in { Absent, Some(UserHook) }, u \in { Absent, Some(UserKey) },
        e \in { Absent, Some(FALSE), Some(TRUE) } }

ProjectFiles ==
    { NoFile, BrokenFile } \cup
    { ConfigFile("dict", w, u, e) :
        w \in { Absent, Some(ProjectHook) }, u \in { Absent, Some(ProjectKey) },
        e \in { Absent, Some(FALSE), Some(TRUE) } }

InitConfig ==
    /\ environ \in { Sources(env, uf, pf) :
                       env \in ConfigEnvironments, uf \in UserFiles, pf \in ProjectFiles }
    /\ CONFIG = NoConfig
    /\ pc = "import"
    /\ stdin = StopEvent(Absent, Absent, Absent)
    /\ file = [state |-> "missing", lines |-> <<>>]
    /\ event_type = ""
    /\ message = NoCard
    /\ cardRead = Empty
    /\ pushRead = Empty
    /\ pushCalls = <<>>
    /\ pushHttp = <<>>
    /\ feishuCalls = <<>>
    /\ feishuHttp = <<>>
    /\ stdout = <<>>
    /\ exitCode = -1
    /\ appended = 0

\* line 61: CONFIG = load_config(), when the module is loaded
LoadConfig ==
    /\ pc = "import"
    /\ CONFIG' = load_config(environ)
    /\ pc' = "loaded"
    /\ UNCHANGED <<environ, stdin, file, event_type, message, cardRead, pushRead, pushCalls,
                   pushHttp, feishuCalls, feishuHttp, stdout, exitCode, appended>>

NextConfig == LoadConfig

SpecConfig == InitConfig /\ [][NextConfig]_vars

\* the environment gives a value for the variable: it is set and not empty
EnvGives(v) == Present(v) /\ v[1] # <<>>
\* a config file gives a value for the key: it loads and holds the key
FileGives(f, v) == f.kind = "dict" /\ Present(v)

\* C12 as stated: each key takes the value of the highest-precedence source
\* that defines it, in the order environment > user file > project file >
\* default; a key missing from one source falls through to the next.
C12_PerKeyPrecedence ==
    pc = "loaded" =>
        LET env == environ.env
            uf == environ.user
            pf == environ.project
        IN  /\ CONFIG.feishu_webhook_url =
                 IF EnvGives(env.FEISHU_WEBHOOK_URL) THEN env.FEISHU_WEBHOOK_URL[1]
                 ELSE IF FileGives(uf, uf.feishu_webhook_url) THEN uf.feishu_webhook_url[1]
                 ELSE IF FileGives(pf, pf.feishu_webhook_url) THEN pf.feishu_webhook_url[1]
                 ELSE <<>>
            /\ CONFIG.ios_push_url =
                 IF EnvGives(env.IOS_PUSH_URL) THEN env.IOS_PUSH_URL[1]
                 ELSE IF FileGives(uf, uf.ios_push_url) THEN uf.ios_push_url[1]
                 ELSE IF FileGives(pf, pf.ios_push_url) THEN pf.ios_push_url[1]
                 ELSE <<>>
            /\ CONFIG.ios_push_enabled =
                 IF EnvGives(env.IOS_PUSH_ENABLED) THEN Lower(env.IOS_PUSH_ENABLED[1]) = TextTrue
                 ELSE IF FileGives(uf, uf.ios_push_enabled) THEN uf.ios_push_enabled[1]
                 ELSE IF FileGives(pf, pf.ios_push_enabled) THEN pf.ios_push_enabled[1]
                 ELSE FALSE

\* the one config file that is consulted: the user file when it exists and
\* loads, otherwise the project file when it exists and loads
ConsultedFile ==
    IF environ.user.kind = "dict" THEN environ.user
    ELSE IF environ.project.kind = "dict" THEN environ.project
    ELSE NoFile

\* C12 (amended): each key takes the value of its environment variable when
\* that is set and not empty; otherwise the value the one consulted config
\* file gives it (the user file if it exists and loads, else the project
\* file); otherwise the default.  A key missing from the consulted file falls
\* through to the default, never to the other file.
C12_FirstFileWins ==
    pc = "loaded" =>
        LET env == environ.env
            cf == ConsultedFile
        IN  /\ CONFIG.feishu_webhook_url =
                 IF EnvGives(env.FEISHU_WEBHOOK_URL) THEN env.FEISHU_WEBHOOK_URL[1]
                 ELSE IF Present(cf.feishu_webhook_url) THEN cf.feishu_webhook_url[1]
                 ELSE <<>>
            /\ CONFIG.ios_push_url =
                 IF EnvGives(env.IOS_PUSH_URL) THEN env.IOS_PUSH_URL[1]
                 ELSE IF Present(cf.ios_push_url) THEN cf.ios_push_url[1]
                 ELSE <<>>
            /\ CONFIG.ios_push_enabled =
                 IF EnvGives(env.IOS_PUSH_ENABLED) THEN Lower(env.IOS_PUSH_ENABLED[1]) = TextTrue
                 ELSE IF Present(cf.ios_push_enabled) THEN cf.ios_push_enabled[1]
                 ELSE FALSE

\* the user file lacks the push endpoint, the project file gives one, and the
\* resolved push endpoint is the default
C12_Witness ==
    /\ pc = "loaded"
    /\ environ.env.IOS_PUSH_URL = Absent
    /\ environ.user.kind = "dict" /\ environ.user.ios_push_url = Absent
    /\ environ.user.feishu_webhook_url = Some(UserHook)
    /\ environ.project.kind = "dict" /\ environ.project.ios_push_url = Some(ProjectKey)
    /\ CONFIG.ios_push_url = <<>>
    /\ CONFIG.feishu_webhook_url = UserHook

----------------------------------------------------------------------------
(* The mobile-push channel *)

\* the log path of the event, as line 390 reads it
PushPath == Get(stdin.transcript_path, Str(<<>>))

\* C13: for a Stop event the push channel is handed at most one summary and
\* sends at most one request, and sends one only when the push enabled flag
\* is true and the push endpoint is not empty; the summary is the first 100
\* characters of the last message the push step extracted when that message
\* is not empty, and the "session ended" text when the event has no log path
\* or nothing was extracted; the request carries that summary.
C13_PushAtMostOnceGated ==
    IsStopRun =>
        /\ Len(pushCalls) <= 1
        /\ Len(pushHttp) <= Len(pushCalls)
        /\ (pc \in {"pushed", "done"} /\ exitCode # 1 => Len(pushCalls) = 1)
        /\ (pushHttp # <<>> => CONFIG.ios_push_enabled /\ CONFIG.ios_push_url # <<>>)
        /\ (pushCalls # <<>> =>
              /\ pushCalls[1].message =
                   IF pushRead.text # <<>>
                   THEN SubSeq(pushRead.text, 1,
                               IF Len(pushRead.text) < PushLimit THEN Len(pushRead.text)
                               ELSE PushLimit)
                   ELSE SessionEnded
              /\ (~Truthy(PushPath) => pushCalls[1].message = SessionEnded)
              /\ Len(pushCalls[1].message) <= PushLimit
              /\ (CONFIG.ios_push_enabled /\ CONFIG.ios_push_url # <<>> =>
                    /\ Len(pushHttp) = 1
                    /\ pushHttp[1].message = pushCalls[1].message \o ClockSuffix))

\* a message longer than 100 characters was extracted and its first 100
\* characters were sent to the enabled push service
C13_Witness ==
    /\ pc = "done" /\ IsStopRun
    /\ Len(pushRead.text) > PushLimit
    /\ Len(pushHttp) = 1
    /\ Len(pushCalls[1].message) = PushLimit

\* the summary was the "session ended" text and the push channel was disabled
C13_WitnessFallback ==
    /\ pc = "done" /\ IsStopRun
    /\ pushCalls # <<>> /\ pushCalls[1].message = SessionEnded
    /\ pushHttp = <<>>

----------------------------------------------------------------------------
(* The two reads of the session log *)

\* C14: within one invocation for a Stop event with a log path, the push
\* summary and the card come from the same extraction of the session log:
\* the push text is the first 100 characters of the message the card shows,
\* or both use their fallback, even when lines are appended to the log while
\* the invocation runs.
C14_PushAndCardShareExtraction ==
    (IsStopRun /\ Truthy(PushPath) /\ pushCalls # <<>>) =>
        /\ pushRead = cardRead
        /\ pushCalls[1].message =
             IF cardRead.text # <<>> THEN Prefix(cardRead.text, PushLimit) ELSE SessionEnded

\* the same, for invocations during which nothing was appended to the log
PushAndCardAgreeWithoutAppends ==
    appended = 0 => C14_PushAndCardShareExtraction

====
